---- MODULE Spec2Model ----
(***************************************************************************)
(* qBraid Chat editor extension (src/qbraid/extension.js).                 *)
(*                                                                         *)
(* The host side (activate, createWebviewPanel, the onDidReceiveMessage    *)
(* handler, handleApiKeyValidation, handleChatRequest, deactivate) and the *)
(* webview script (the apiKey input listener, sendPrompt, the message      *)
(* listener) are modelled as one state machine.  Every await of the host   *)
(* handlers is a point where other events may run, so a handler is a       *)
(* record with a program counter.  Text is a sequence of one-character     *)
(* strings, so that trim(), length and the regular expression test are     *)
(* computed, not assumed.                                                  *)
(***************************************************************************)
EXTENDS Integers, Sequences, FiniteSets, TLC

VARIABLES
    revision,      \* which of the two getWebviewContent texts of the file is shipped
    active,        \* the extension is activated and not yet deactivated
    currentPanel,  \* the module variable currentPanel: 0 is undefined, else a panel id
    panels,        \* the panels created so far, by id: host liveness and the webview's DOM
    toHost,        \* messages posted by webviews (vscode.postMessage), not yet handled
    handlers,      \* invocations of the onDidReceiveMessage handler, in order of arrival
    http,          \* HTTP requests issued and not yet settled
    config         \* the stored configuration value qbraidChat.apiKey

vars == <<revision, active, currentPanel, panels, toHost, handlers, http, config>>

----------------------------------------------------------------------------
(* Bounds of the model *)

MaxPanels == 2
MaxMessages == 2

----------------------------------------------------------------------------
(* Text *)

KeyLength == 30

LowerCase == {"a", "b", "c", "d", "e", "f", "g", "h", "i", "j", "k", "l", "m",
              "n", "o", "p", "q", "r", "s", "t", "u", "v", "w", "x", "y", "z"}
Digits == {"0", "1", "2", "3", "4", "5", "6", "7", "8", "9"}
WhiteSpace == {" ", "\t", "\n"}

RECURSIVE TrimStart(_)
TrimStart(s) ==
    IF s # <<>> /\ Head(s) \in WhiteSpace THEN TrimStart(Tail(s)) ELSE s

RECURSIVE TrimEnd(_)
TrimEnd(s) ==
    IF s # <<>> /\ s[Len(s)] \in WhiteSpace
    THEN TrimEnd(SubSeq(s, 1, Len(s) - 1))
    ELSE s

\* String.prototype.trim
Trim(s) == TrimEnd(TrimStart(s))

\* /^[a-z0-9]+$/.test(key)
KeyPattern(key) ==
    /\ Len(key) >= 1
    /\ \A i \in 1..Len(key) : key[i] \in LowerCase \cup Digits

\* the format test without its length condition
PatternOnly(key) == KeyPattern(key)

\* key.length === 30 && /^[a-z0-9]+$/.test(key)
ValidKeyFormat(key) == Len(key) = KeyLength /\ KeyPattern(key)

Repeat(c, n) == [i \in 1..n |-> c]

\* the undefined (or empty) configuration value: both are falsy in `!apiKey`
NoKey == <<>>

----------------------------------------------------------------------------
(* The webview document *)

\* #chatSection { display: none; } is in the first stylesheet only
ChatSectionDisplayed(rev) == rev = 2

\* the input element: maxlength="30" is in the second markup only
ApiKeyInputValue(rev, raw) ==
    IF rev = 2 /\ Len(raw) > KeyLength THEN SubSeq(raw, 1, KeyLength) ELSE raw

ValidatingText == "Validating API key..."
FormatErrorText ==
    "API key must be 30 characters long and contain only lowercase letters and numbers"

NewPanel(rev) ==
    [ live          |-> TRUE,
      apiKeySection |-> TRUE,
      chatSection   |-> ChatSectionDisplayed(rev),
      apiKeyValue   |-> <<>>,
      apiKeyStatus  |-> [textContent |-> "", className |-> ""],
      modelSelect   |-> <<>>,
      chatDisplay   |-> <<>>,
      inbox         |-> <<>> ]

PanelIds == 1..Len(panels)
LivePanels == {p \in PanelIds : panels[p].live}

\* messages sent by the webviews so far, handled or not
Sent == Len(toHost) + Len(handlers)

----------------------------------------------------------------------------
(* Host: commands and panel lifetime *)

Init ==
    /\ revision \in {1, 2}
    /\ active = TRUE
    /\ currentPanel = 0
    /\ panels = <<>>
    /\ toHost = <<>>
    /\ handlers = <<>>
    /\ http = {}
    /\ config = NoKey

\* createWebviewPanel: the new panel becomes currentPanel
createWebviewPanel ==
    /\ panels' = Append(panels, NewPanel(revision))
    /\ currentPanel' = Len(panels) + 1

\* openChat without the test of currentPanel
OpenChatAlwaysCreates ==
    /\ active
    /\ Len(panels) < MaxPanels
    /\ createWebviewPanel
    /\ UNCHANGED <<revision, active, toHost, handlers, http, config>>

\* the qbraid-chat.openChat command; the command is registered in
\* context.subscriptions, which the host disposes on deactivation
OpenChat ==
    /\ active
    /\ IF currentPanel # 0
       THEN UNCHANGED <<panels, currentPanel>>          \* reveal
       ELSE Len(panels) < MaxPanels /\ createWebviewPanel
    /\ UNCHANGED <<revision, active, toHost, handlers, http, config>>

\* the onDidDispose listener of a panel
onDidDispose == currentPanel' = 0

\* a disposed panel: its webview document is gone
Disposed ==
    [ live          |-> FALSE,
      apiKeySection |-> FALSE,
      chatSection   |-> FALSE,
      apiKeyValue   |-> <<>>,
      apiKeyStatus  |-> [textContent |-> "", className |-> ""],
      modelSelect   |-> <<>>,
      chatDisplay   |-> <<>>,
      inbox         |-> <<>> ]

\* panel.dispose(), by the user closing the tab or by the extension: the host
\* delivers no message of a disposed webview
Dispose(p) ==
    /\ panels' = [panels EXCEPT ![p] = Disposed]
    /\ toHost' = SelectSeq(toHost, LAMBDA m : m.from # p)
    /\ onDidDispose

ClosePanel(p) ==
    /\ panels[p].live
    /\ Dispose(p)
    /\ UNCHANGED <<revision, active, handlers, http, config>>

deactivate ==
    /\ active
    /\ active' = FALSE
    /\ IF currentPanel # 0
       THEN Dispose(currentPanel)
       ELSE UNCHANGED <<panels, currentPanel, toHost>>
    /\ UNCHANGED <<revision, handlers, http, config>>

----------------------------------------------------------------------------
(* Webview script *)

ValidateMsg(p, key) == [from |-> p, command |-> "validateApiKey", arg |-> key]
ChatMsg(p, prompt) == [from |-> p, command |-> "sendChat", arg |-> prompt]

\* the 'input' listener of #apiKey
ApiKeyInput(p, raw) ==
    LET value == ApiKeyInputValue(revision, raw)
        key   == Trim(value)
    IN  /\ panels[p].live
        /\ panels[p].apiKeySection
        /\ IF ValidKeyFormat(key)
           THEN /\ Sent < MaxMessages
                /\ panels' = [panels EXCEPT
                       ![p].apiKeyValue = value,
                       ![p].apiKeyStatus =
                           [textContent |-> ValidatingText, className |-> ""]]
                /\ toHost' = Append(toHost, ValidateMsg(p, key))
           ELSE /\ panels' = [panels EXCEPT
                       ![p].apiKeyValue = value,
                       ![p].apiKeyStatus =
                           [textContent |-> FormatErrorText, className |-> "error"]]
                /\ UNCHANGED toHost
        /\ UNCHANGED <<revision, active, currentPanel, handlers, http, config>>

\* appendMessage(message, type)
appendMessage(display, message, type) ==
    Append(display, [className |-> IF type = "user" THEN "message user-message"
                                   ELSE "message assistant-message",
                     label     |-> IF type = "user" THEN "You: " ELSE "Assistant: ",
                     text      |-> message])

\* sendPrompt(), from the Send button or the Enter key of #promptInput
sendPrompt(p, raw) ==
    LET prompt == Trim(raw)
    IN  /\ panels[p].live
        /\ panels[p].chatSection
        /\ IF prompt = <<>>
           THEN UNCHANGED <<panels, toHost>>
           ELSE /\ Sent < MaxMessages
                /\ panels' = [panels EXCEPT
                       ![p].chatDisplay = appendMessage(@, prompt, "user")]
                /\ toHost' = Append(toHost, ChatMsg(p, prompt))
        /\ UNCHANGED <<revision, active, currentPanel, handlers, http, config>>

\* the window 'message' listener
WebviewReceive(p) ==
    /\ panels[p].live
    /\ panels[p].inbox # <<>>
    /\ LET message == Head(panels[p].inbox)
           rest    == Tail(panels[p].inbox)
       IN  panels' =
             CASE message.command = "apiKeyValidated" ->
                    [panels EXCEPT ![p].inbox = rest,
                                   ![p].apiKeySection = FALSE,
                                   ![p].chatSection = TRUE,
                                   ![p].modelSelect = message.body]
               [] message.command = "chatResponse" ->
                    [panels EXCEPT ![p].inbox = rest,
                                   ![p].chatDisplay =
                                       appendMessage(@, message.body, "assistant")]
               [] message.command = "error" ->
                    [panels EXCEPT ![p].inbox = rest,
                                   ![p].chatDisplay =
                                       Append(@, [className |-> "error",
                                                  label     |-> "",
                                                  text      |-> message.body])]
               [] OTHER -> [panels EXCEPT ![p].inbox = rest]
    /\ UNCHANGED <<revision, active, currentPanel, toHost, handlers, http, config>>

----------------------------------------------------------------------------
(* Host: the message handlers *)

ModelsUrl == "https://api.qbraid.com/api/chat/models"
ChatUrl == "https://api.qbraid.com/api/chat"

KeyNotFoundText == "API key not found. Please enter your API key."
ValidateFailedText == "Failed to validate API key"
ChatFailedText == "Failed to get chat response"

\* one invocation of the onDidReceiveMessage handler
\*   pc     where it stands: awaitGet, awaitUpdate, awaitPost or done
\*   panel  the panel argument of the handle* function (0: none was called)
\*   key    the api-key header of its request
\*   status the status of the response it got (-1: none)
\*   posts  the messages it posted to a live panel
\*   reqs   the HTTP methods it issued
\*   late   its postMessage calls on a panel already disposed
Handler(msg, panel, pc) ==
    [ cmd |-> msg.command, from |-> msg.from, arg |-> msg.arg,
      panel |-> panel, pc |-> pc, key |-> NoKey, status |-> -1,
      posts |-> <<>>, reqs |-> <<>>, late |-> 0 ]

ErrorMsg(text) == [command |-> "error", body |-> text]

\* panel.webview.postMessage(msg) by handler h, on a live panel
PostTo(ps, p, msg) == [ps EXCEPT ![p].inbox = Append(@, msg)]

\* handleApiKeyValidation up to its first await
handleApiKeyValidation(msg, panel) ==
    LET h == Len(handlers) + 1
    IN  /\ handlers' = Append(handlers,
               [Handler(msg, panel, "awaitGet") EXCEPT
                   !.key = msg.arg, !.reqs = <<"GET">>])
        /\ http' = http \cup
               {[h |-> h, method |-> "GET", url |-> ModelsUrl, key |-> msg.arg]}
        /\ UNCHANGED <<panels, config>>

\* handleChatRequest without the return after the 'API key not found' message
handleChatRequestNoReturn(msg, panel) ==
    LET h      == Len(handlers) + 1
        apiKey == config
    IN  /\ handlers' = Append(handlers,
               [Handler(msg, panel, "awaitPost") EXCEPT
                   !.key = apiKey, !.reqs = <<"POST">>,
                   !.posts = IF apiKey = NoKey THEN <<ErrorMsg(KeyNotFoundText)>>
                             ELSE <<>>])
        /\ panels' = IF apiKey = NoKey
                     THEN PostTo(panels, panel, ErrorMsg(KeyNotFoundText))
                     ELSE panels
        /\ http' = http \cup
               {[h |-> h, method |-> "POST", url |-> ChatUrl, key |-> apiKey]}
        /\ UNCHANGED config

\* handleChatRequest that does not await axios.post
handleChatRequestNoAwait(msg, panel) ==
    LET h      == Len(handlers) + 1
        apiKey == config
    IN  /\ handlers' = Append(handlers,
               [Handler(msg, panel, "done") EXCEPT
                   !.key = apiKey, !.reqs = <<"POST">>])
        /\ http' = http \cup
               {[h |-> h, method |-> "POST", url |-> ChatUrl, key |-> apiKey]}
        /\ UNCHANGED <<panels, config>>

\* the sendChat case calling the handler of the validateApiKey case
handleChatRequestAsValidation(msg, panel) == handleApiKeyValidation(msg, panel)

\* handleChatRequest up to its first await, or to its early return
handleChatRequest(msg, panel) ==
    LET h      == Len(handlers) + 1
        apiKey == config
    IN  IF apiKey = NoKey
        THEN /\ handlers' = Append(handlers,
                    [Handler(msg, panel, "done") EXCEPT
                        !.posts = <<ErrorMsg(KeyNotFoundText)>>])
             /\ panels' = PostTo(panels, panel, ErrorMsg(KeyNotFoundText))
             /\ UNCHANGED <<http, config>>
        ELSE /\ handlers' = Append(handlers,
                    [Handler(msg, panel, "awaitPost") EXCEPT
                        !.key = apiKey, !.reqs = <<"POST">>])
             /\ http' = http \cup
                    {[h |-> h, method |-> "POST", url |-> ChatUrl, key |-> apiKey]}
             /\ UNCHANGED <<panels, config>>

\* the listener given to webview.onDidReceiveMessage, for the oldest message in
\* flight; it is registered in context.subscriptions too
ReceiveMessage ==
    /\ active
    /\ toHost # <<>>
    /\ LET message == Head(toHost)
       IN  /\ toHost' = Tail(toHost)
           /\ IF currentPanel = 0
              THEN /\ handlers' = Append(handlers, Handler(message, 0, "done"))
                   /\ UNCHANGED <<panels, http, config>>
              ELSE CASE message.command = "validateApiKey" ->
                          handleApiKeyValidation(message, currentPanel)
                     [] message.command = "sendChat" ->
                          handleChatRequest(message, currentPanel)
                     [] OTHER ->
                          /\ handlers' = Append(handlers, Handler(message, 0, "done"))
                          /\ UNCHANGED <<panels, http, config>>
    /\ UNCHANGED <<revision, active, currentPanel>>

----------------------------------------------------------------------------
(* The remote service, as seen through axios *)

\* axios' default validateStatus: the promise resolves for 2xx and rejects otherwise;
\* status 0 stands for a request that got no response at all (error.response undefined)
ValidateStatus(status) == status >= 200 /\ status < 300

ModelList == <<[model |-> "m1"], [model |-> "m2"]>>

GetResponses ==
    { [status |-> 200, data |-> [isArray |-> TRUE, items |-> ModelList]],
      [status |-> 200, data |-> [isArray |-> FALSE, items |-> <<>>]],
      [status |-> 204, data |-> [isArray |-> FALSE, items |-> <<>>]],
      [status |-> 401, data |-> "Invalid API key"] }

PostResponses ==
    { [status |-> 200, data |-> [content |-> "answer"]],
      [status |-> 201, data |-> [content |-> "answer"]],
      [status |-> 401, data |-> "Invalid API key"],
      [status |-> 0, data |-> ""] }

\* error.response?.data || fallback
ErrorText(response, fallback) ==
    IF response.status # 0 /\ response.data # "" THEN response.data ELSE fallback

\* response.data.map(model => model.model)
ModelNames(data) == [i \in 1..Len(data.items) |-> data.items[i].model]

----------------------------------------------------------------------------
(* Host: the handlers after an await *)

\* panel.webview.postMessage(msg) in handler hd.  On a disposed panel the call either
\* throws (thrown) or is dropped, as the host decides.
PostResult(ps, hd, msg, throws) ==
    IF ps[hd.panel].live
    THEN [ panels  |-> PostTo(ps, hd.panel, msg),
           handler |-> [hd EXCEPT !.posts = Append(@, msg)],
           thrown  |-> FALSE ]
    ELSE [ panels  |-> ps,
           handler |-> [hd EXCEPT !.late = @ + 1],
           thrown  |-> throws ]

\* the catch block of either handler: if (panel) postMessage({command: 'error', ...});
\* an exception thrown here ends the handler all the same
Catch(ps, hd, text, throws) ==
    LET r == PostResult(ps, hd, ErrorMsg(text), throws)
    IN  [ panels  |-> r.panels,
          handler |-> [r.handler EXCEPT !.pc = "done"] ]

\* handleApiKeyValidation without the test response.status === 200
AfterGetAnyStatus(ps, hd, response, throws) ==
    IF ValidateStatus(response.status)
    THEN LET r == PostResult(ps, hd,
                      [command |-> "apiKeyValidated", body |-> <<>>], throws)
         IN  IF r.thrown
             THEN Catch(r.panels, r.handler, ValidateFailedText, throws)
             ELSE [ panels  |-> r.panels,
                    handler |-> [r.handler EXCEPT !.pc = "awaitUpdate"] ]
    ELSE Catch(ps, hd, ErrorText(response, ValidateFailedText), throws)

\* handleApiKeyValidation from the settling of axios.get to its next await or its end
AfterGet(ps, hd, response, throws) ==
    IF ValidateStatus(response.status)
    THEN IF response.status = 200
         THEN IF response.data.isArray
              THEN LET r == PostResult(ps, hd,
                                [command |-> "apiKeyValidated",
                                 body    |-> ModelNames(response.data)], throws)
                   IN  IF r.thrown
                       THEN Catch(r.panels, r.handler, ValidateFailedText, throws)
                       ELSE [ panels  |-> r.panels,
                              handler |-> [r.handler EXCEPT !.pc = "awaitUpdate"] ]
              ELSE Catch(ps, hd, ValidateFailedText, throws)
         ELSE [panels |-> ps, handler |-> [hd EXCEPT !.pc = "done"]]
    ELSE Catch(ps, hd, ErrorText(response, ValidateFailedText), throws)

\* handleChatRequest from the settling of axios.post to its end
AfterPost(ps, hd, response, throws) ==
    IF ValidateStatus(response.status)
    THEN IF response.status = 200
         THEN LET r == PostResult(ps, hd,
                           [command |-> "chatResponse",
                            body    |-> response.data.content], throws)
              IN  IF r.thrown
                  THEN Catch(r.panels, r.handler, ChatFailedText, throws)
                  ELSE [ panels  |-> r.panels,
                         handler |-> [r.handler EXCEPT !.pc = "done"] ]
         ELSE [panels |-> ps, handler |-> [hd EXCEPT !.pc = "done"]]
    ELSE Catch(ps, hd, ErrorText(response, ChatFailedText), throws)

\* what the host may do with a postMessage on panel p
Throws(p) == IF p = 0 \/ panels[p].live THEN {FALSE} ELSE BOOLEAN

\* axios.get settles for handler h
GetSettles(h, response, throws) ==
    /\ handlers[h].pc = "awaitGet"
    /\ LET r == AfterGet(panels, [handlers[h] EXCEPT !.status = response.status],
                         response, throws)
       IN  /\ panels' = r.panels
           /\ handlers' = [handlers EXCEPT ![h] = r.handler]
    /\ http' = {q \in http : q.h # h}
    /\ UNCHANGED <<revision, active, currentPanel, toHost, config>>

\* configuration.update('qbraidChat.apiKey', apiKey, true) settles for handler h
UpdateSettles(h, fulfilled, throws) ==
    /\ handlers[h].pc = "awaitUpdate"
    /\ IF fulfilled
       THEN /\ config' = handlers[h].arg
            /\ handlers' = [handlers EXCEPT ![h].pc = "done"]
            /\ UNCHANGED panels
       ELSE LET r == Catch(panels, handlers[h], ValidateFailedText, throws)
            IN  /\ panels' = r.panels
                /\ handlers' = [handlers EXCEPT ![h] = r.handler]
                /\ UNCHANGED config
    /\ UNCHANGED <<revision, active, currentPanel, toHost, http>>

\* handleChatRequest forgetting the stored key when the service refuses it
PostSettlesClearsKey(h, response, throws) ==
    /\ handlers[h].pc = "awaitPost"
    /\ LET r == AfterPost(panels, [handlers[h] EXCEPT !.status = response.status],
                          response, throws)
       IN  /\ panels' = r.panels
           /\ handlers' = [handlers EXCEPT ![h] = r.handler]
    /\ http' = {q \in http : q.h # h}
    /\ config' = IF response.status = 401 THEN NoKey ELSE config
    /\ UNCHANGED <<revision, active, currentPanel, toHost>>

\* axios.post settles for handler h
PostSettles(h, response, throws) ==
    /\ handlers[h].pc = "awaitPost"
    /\ LET r == AfterPost(panels, [handlers[h] EXCEPT !.status = response.status],
                          response, throws)
       IN  /\ panels' = r.panels
           /\ handlers' = [handlers EXCEPT ![h] = r.handler]
    /\ http' = {q \in http : q.h # h}
    /\ UNCHANGED <<revision, active, currentPanel, toHost, config>>

----------------------------------------------------------------------------
(* Inputs and the specifications *)

KeyA == Repeat("a", KeyLength)
KeyB == Repeat("7", KeyLength)

\* what is typed into #apiKey: two well-formed keys, one of them padded
KeyInputs == { KeyA, <<" ">> \o KeyB }

\* what is typed into #promptInput
PromptInputs == { <<"h", "i", " ">>, <<" ">> }

\* a message whose command the switch of the listener does not list
OtherMessage(p) ==
    /\ panels[p].live
    /\ Sent < MaxMessages
    /\ toHost' = Append(toHost, [from |-> p, command |-> "ping", arg |-> <<>>])
    /\ UNCHANGED <<revision, active, currentPanel, panels, handlers, http, config>>

Next ==
    \/ OpenChat
    \/ deactivate
    \/ \E p \in PanelIds : ClosePanel(p)
    \/ \E p \in PanelIds, raw \in KeyInputs : ApiKeyInput(p, raw)
    \/ \E p \in PanelIds, raw \in PromptInputs : sendPrompt(p, raw)
    \/ \E p \in PanelIds : OtherMessage(p)
    \/ \E p \in PanelIds : WebviewReceive(p)
    \/ ReceiveMessage
    \/ \E h \in 1..Len(handlers), response \in GetResponses :
           \E throws \in Throws(handlers[h].panel) : GetSettles(h, response, throws)
    \/ \E h \in 1..Len(handlers), fulfilled \in BOOLEAN :
           \E throws \in Throws(handlers[h].panel) : UpdateSettles(h, fulfilled, throws)
    \/ \E h \in 1..Len(handlers), response \in PostResponses :
           \E throws \in Throws(handlers[h].panel) : PostSettles(h, response, throws)

Spec == Init /\ [][Next]_vars

----------------------------------------------------------------------------
(* The format test of the input listener, on its own: the first input event of a   *)
(* panel, over a family of texts around the accepted format                        *)

ProbeChars == {"a", "z", "0", "9", "A", "Z", "-", "_", " ", "@", "{", "/", ":"}
Pads == {<<>>, <<" ">>, <<"\t">>}

Probe(n, i, c) == [j \in 1..n |-> IF j = i THEN c ELSE "a"]

FormatInputs ==
    { l \o Probe(n, i, c) \o r :
        l \in Pads, r \in Pads,
        n \in {KeyLength - 1, KeyLength, KeyLength + 1},
        i \in {1, KeyLength \div 2, KeyLength},
        c \in ProbeChars } \cup {<<>>}

FirstKeyInput(p, raw) ==
    /\ panels[p].apiKeyStatus.textContent = ""
    /\ ApiKeyInput(p, raw)

NextInput ==
    \/ OpenChat
    \/ \E p \in PanelIds : ClosePanel(p)
    \/ \E p \in PanelIds, raw \in FormatInputs : FirstKeyInput(p, raw)

SpecInput == Init /\ [][NextInput]_vars

----------------------------------------------------------------------------
(* Properties *)

HandlerIds == 1..Len(handlers)
Last(seq) == seq[Len(seq)]

\* C1: at most one chat panel is live at any time, currentPanel is that panel or
\* undefined when there is none, and after deactivate no panel is live.
C1_AtMostOnePanel ==
    /\ Cardinality(LivePanels) <= 1
    /\ LivePanels = (IF currentPanel = 0 THEN {} ELSE {currentPanel})
    /\ (~active => LivePanels = {})

\* a second panel was created after the first one was disposed
C1_Witness ==
    /\ Len(panels) = 2
    /\ ~panels[1].live
    /\ currentPanel = 2

\* the format of an API key as the glossary states it
C2_IsApiKey(k) ==
    /\ Len(k) = 30
    /\ \A i \in 1..Len(k) : k[i] \in LowerCase \cup Digits

\* C2: after the first input event of a panel, a validateApiKey message is in flight
\* exactly when the trimmed value of #apiKey is 30 lowercase letters and digits, and
\* it carries that trimmed value; for any other value no message is in flight and
\* apiKeyStatus shows the format error.
C2_ValidateOnlyWellFormed ==
    \A p \in LivePanels :
        LET key  == Trim(panels[p].apiKeyValue)
            sent == SelectSeq(toHost, LAMBDA m : m.from = p)
        IN  panels[p].apiKeyStatus.textContent # "" =>
                IF C2_IsApiKey(key)
                THEN /\ sent = <<ValidateMsg(p, key)>>
                     /\ panels[p].apiKeyStatus.textContent = ValidatingText
                ELSE /\ sent = <<>>
                     /\ panels[p].apiKeyStatus =
                            [textContent |-> FormatErrorText, className |-> "error"]

\* a padded text whose trimmed value is a key has been typed and the key was sent
C2_Witness ==
    \E p \in LivePanels :
        /\ panels[p].apiKeyValue # Trim(panels[p].apiKeyValue)
        /\ \E i \in 1..Len(toHost) :
               toHost[i] = ValidateMsg(p, Trim(panels[p].apiKeyValue))

\* the keys for which the models endpoint answered with status 200
C3_Accepted ==
    { handlers[h].arg : h \in { g \in HandlerIds :
          handlers[g].cmd = "validateApiKey" /\ handlers[g].status = 200 } }

\* C3: the stored qbraidChat.apiKey is empty or a key the models endpoint answered
\* with status 200, and every POST to the chat endpoint carries such a key.
C3_StoredKeyAccepted ==
    /\ config = NoKey \/ config \in C3_Accepted
    /\ \A q \in http : q.method = "POST" => q.url = ChatUrl /\ q.key \in C3_Accepted
    /\ \A h \in HandlerIds :
           "POST" \in {handlers[h].reqs[i] : i \in 1..Len(handlers[h].reqs)}
               => handlers[h].key \in C3_Accepted

\* a prompt was posted to the chat endpoint with the stored key
C3_Witness ==
    \E q \in http : q.method = "POST" /\ q.key = config /\ config # NoKey

\* C4: a sendChat message handled while no API key is stored posts exactly one error
\* message ('API key not found. Please enter your API key.') to the panel, issues no
\* HTTP request and leaves the stored configuration unchanged.
C4_NoKeyChat ==
    [][ ( /\ Len(handlers') = Len(handlers) + 1
          /\ Last(handlers').cmd = "sendChat"
          /\ currentPanel # 0
          /\ config = NoKey )
        => ( /\ Last(handlers').posts = <<ErrorMsg(KeyNotFoundText)>>
             /\ panels' = [panels EXCEPT ![currentPanel].inbox =
                               Append(@, ErrorMsg(KeyNotFoundText))]
             /\ Last(handlers').reqs = <<>>
             /\ Last(handlers').pc = "done"
             /\ http' = http
             /\ config' = config ) ]_vars

\* a sendChat message was handled while no key was stored
C4_Witness ==
    \E h \in HandlerIds :
        /\ handlers[h].cmd = "sendChat"
        /\ handlers[h].panel # 0
        /\ handlers[h].key = NoKey
        /\ handlers[h].posts = <<ErrorMsg(KeyNotFoundText)>>

\* C5: every sendChat message handled while a key is stored results, once its
\* handler has ended with the panel still there, in exactly one message posted to
\* the panel: a chatResponse with the service's content for status 200 and an error
\* message for every other outcome.
C5_EveryPromptAnswered ==
    \A h \in HandlerIds :
        ( /\ handlers[h].cmd = "sendChat"
          /\ handlers[h].key # NoKey
          /\ handlers[h].pc = "done"
          /\ handlers[h].late = 0 )
        => /\ Len(handlers[h].posts) = 1
           /\ handlers[h].posts[1].command =
                  (IF handlers[h].status = 200 THEN "chatResponse" ELSE "error")

\* C6 as claimed: the host never has two HTTP requests outstanding at the same time.
C6_Sequential == Cardinality(http) <= 1

\* C6, amended: each handled message has at most one HTTP request, which is
\* outstanding exactly while its handler awaits it; requests of different messages
\* may be outstanding together.
C6_OneRequestPerHandler ==
    /\ \A h \in HandlerIds :
           /\ Len(handlers[h].reqs) <= 1
           /\ Cardinality({q \in http : q.h = h}) =
                  (IF handlers[h].pc \in {"awaitGet", "awaitPost"} THEN 1 ELSE 0)
    /\ \A q \in http : q.h \in HandlerIds

\* two HTTP requests are outstanding together
C6_Witness == Cardinality(http) = 2

\* C7: in every state of a panel exactly one of the API-key section and the chat
\* section is visible (the API-key section until apiKeyValidated is received, the chat
\* section from then on).
C7_ExactlyOneVisible ==
    \A p \in LivePanels : panels[p].apiKeySection # panels[p].chatSection

\* C8: a step of a sendChat handler, of a handler of any other command, or of a
\* validateApiKey handler whose request did not answer 200, leaves the stored
\* configuration unchanged.
C8_OnlyValidationWrites ==
    [][ \A h \in 1..Len(handlers') :
            ( /\ (h > Len(handlers) \/ handlers'[h] # handlers[h])
              /\ (handlers'[h].cmd # "validateApiKey" \/ handlers'[h].status # 200) )
            => config' = config ]_vars

\* a key is stored, a later validation of another key failed and the key is still there
C8_Witness ==
    /\ config # NoKey
    /\ \E h \in HandlerIds :
           /\ handlers[h].cmd = "validateApiKey"
           /\ handlers[h].pc = "done"
           /\ handlers[h].status = 401
           /\ handlers[h].arg # config

\* C9: a validateApiKey message causes exactly one GET to the models endpoint and no
\* POST, a sendChat message at most one POST to the chat endpoint and no GET, a
\* message with any other command no request and no message to the panel, and a
\* message received while currentPanel is undefined nothing at all.
C9_Routing ==
    /\ \A h \in HandlerIds :
           LET hd == handlers[h]
           IN  CASE hd.panel = 0 /\ hd.cmd \in {"validateApiKey", "sendChat"} ->
                        hd.reqs = <<>> /\ hd.posts = <<>> /\ hd.late = 0
                 [] hd.panel # 0 /\ hd.cmd = "validateApiKey" -> hd.reqs = <<"GET">>
                 [] hd.panel # 0 /\ hd.cmd = "sendChat" ->
                        hd.reqs \in {<<>>, <<"POST">>}
                 [] OTHER ->
                        hd.reqs = <<>> /\ hd.posts = <<>> /\ hd.pc = "done"
    /\ \A q \in http :
           /\ q.method = "GET" => q.url = ModelsUrl
           /\ q.method = "POST" => q.url = ChatUrl
           /\ q.method = (IF handlers[q.h].cmd = "validateApiKey" THEN "GET" ELSE "POST")

\* a message with another command was handled, then a validateApiKey message
C9_Witness ==
    /\ Len(handlers) = 2
    /\ handlers[1].cmd = "ping"
    /\ handlers[2].cmd = "validateApiKey"
    /\ handlers[2].reqs = <<"GET">>

\* C10: every handled validateApiKey message results, once its handler has ended with
\* the panel still there, in exactly one message posted to the panel: apiKeyValidated
\* with the model names in the order the list endpoint returned them, or one error.
C10_ExactlyOneReply ==
    \A h \in HandlerIds :
        ( /\ handlers[h].cmd = "validateApiKey"
          /\ handlers[h].pc = "done"
          /\ handlers[h].late = 0 )
        => /\ Len(handlers[h].posts) = 1
           /\ handlers[h].posts[1] \in
                  { [command |-> "apiKeyValidated", body |-> <<"m1", "m2">>],
                    ErrorMsg(ValidateFailedText), ErrorMsg("Invalid API key") }

\* C11: a sendChat sent from a panel whose chat section was shown by apiKeyValidated
\* always finds the API key stored: the host never answers it with 'API key not
\* found'.  Where the stylesheet hides the chat section at first, every sendChat is
\* one sent after apiKeyValidated was received.
C11_KeyStoredOnceValidated ==
    ~ChatSectionDisplayed(revision) =>
        \A h \in HandlerIds :
            handlers[h].cmd = "sendChat" =>
                /\ handlers[h].key # NoKey
                /\ ErrorMsg(KeyNotFoundText) \notin
                       {handlers[h].posts[i] : i \in 1..Len(handlers[h].posts)}

\* C12: no handler calls postMessage on a panel that has been disposed, and what a
\* handler posts goes to the panel its message came from, never to a panel opened
\* later.
C12_NoPostAfterDispose ==
    \A h \in HandlerIds :
        /\ handlers[h].late = 0
        /\ handlers[h].panel \in {0, handlers[h].from}

\* the validations that succeeded: the models were posted and the key was stored
\* with no error (handlers are numbered in the order their messages were submitted)
C13_Succeeded ==
    { h \in HandlerIds :
        /\ handlers[h].cmd = "validateApiKey"
        /\ handlers[h].pc = "done"
        /\ handlers[h].late = 0
        /\ Len(handlers[h].posts) = 1
        /\ handlers[h].posts[1].command = "apiKeyValidated" }

\* C13: once every submitted validation has completed, the stored API key is the key
\* of the most recently submitted validation that succeeded, whatever the order in
\* which the responses arrived.
C13_LastSubmittedWins ==
    ( /\ toHost = <<>>
      /\ \A h \in HandlerIds : handlers[h].pc = "done" /\ handlers[h].late = 0
      /\ C13_Succeeded # {} )
    => config = handlers[CHOOSE h \in C13_Succeeded :
                             \A g \in C13_Succeeded : g <= h].arg

====
